---- MODULE Spec2Model ----
(***************************************************************************)
(* Progressive pitch-series extraction and segment cache of PitchAccent_Web *)
(* (src/src/services/PitchDataManager.ts), as driven by src/src/App.tsx.    *)
(*                                                                          *)
(* Representation.                                                          *)
(*  - Durations, segment boundaries and the start/end arguments of the      *)
(*    public methods are whole seconds.                                     *)
(*  - A sample time i / sampleRate is held as its numerator i (the frame's  *)
(*    start sample); a comparison of such a time with a value s in seconds  *)
(*    is the comparison of i with s * SampleRate, which is exact.           *)
(*  - null in a pitch array is Null.  Clarity is held in hundredths, so     *)
(*    MIN_CLARITY = 0.8 is 80.                                              *)
(*  - JavaScript runs one job to completion: an action is the code between  *)
(*    two suspension points (await) of one async call.                      *)
(***************************************************************************)
EXTENDS Integers, Sequences, FiniteSets, TLC

(***************************************************************************)
(* Bounds of the model.                                                     *)
(***************************************************************************)
\* concurrent loadSegmentsForTimeRange calls that may be in flight
MaxCalls == 2
\* concurrent initialize calls that may be in flight
MaxInits == 1
\* public operations (initialize, loadSegmentsForTimeRange,
\* getPitchDataForTimeRange) issued in one run
MaxOps == 3
\* sample rate of the decoded buffers (samples per second)
SampleRate == 300
\* longest pitch array handed to medianFilter on its own
MaxLen == 5

(***************************************************************************)
(* Program constants.                                                       *)
(***************************************************************************)
MIN_PITCH == 60
MAX_PITCH == 500
\* 0.8, in hundredths
MIN_CLARITY == 80
MEDIAN_FILTER_SIZE == 5
frameSize == 2048
hopSize == 256
\* the configuration App.tsx constructs the manager with
thresholdDuration == 30
segmentDuration == 10
preloadSegments == 1
maxCachedSegments == 6

Null == -1

(***************************************************************************)
(* Inputs.                                                                  *)
(***************************************************************************)
\* currentFile = null
NoFile == [id |-> 0, dur |-> 0]

\* The media files a user may load: an identity and the duration (seconds)
\* that the metadata probe reports for it.
Files == { [id |-> 1, dur |-> 30], [id |-> 2, dur |-> 45], [id |-> 3, dur |-> 75] }

\* <<start, end>> arguments (seconds) of loadSegmentsForTimeRange
LoadRanges ==
    { <<-40, 5>>, <<5, 65>>, <<12, 22>>, <<45, 65>> }

\* the load ranges of the runs checked for progress: two overlapping
\* windows, the wider one reaching past the end of the shorter sources
FairLoadRanges == { <<5, 65>>, <<12, 22>> }

\* start/end arguments (seconds) of getPitchDataForTimeRange
QueryTimes == {-5, 0, 1, 2, 3, 10, 12, 30, 45}

\* <<start, end>> arguments (seconds) of the getPitchDataForTimeRange calls
\* issued as operations of a run: the call of App.tsx after an initialize
\* and the visible window of a view change
QueryRanges == { <<0, 30>>, <<12, 22>> }

\* estimated frequencies (Hz) and clarities (hundredths) the threshold is
\* applied to on its own
PitchValues == { 0, 59, 60, 61, 220, 499, 500, 501, 1000 }
ClarityValues == { 0, 79, 80, 81, 100 }

\* the arrays medianFilter is applied to on its own, and the window sizes
FilterValues == { Null, 98, 100, 102 }
FilterArrays == UNION { [ 1..n -> FilterValues ] : n \in 0..MaxLen }
WindowSizes == { 1, 3, 4, 5 }

\* <<first, length>> of the sample ranges the frame loop is applied to on
\* its own: the ranges of a segment and of a whole file, and ranges around
\* one frame and around a whole number of hops
SampleRangeStarts == { 0, 3000, 12000 }
SampleRangeLengths ==
    { 0, 1500, frameSize - 1, frameSize, frameSize + 1,
      frameSize + hopSize, frameSize + hopSize + 1,
      frameSize + 2 * hopSize, frameSize + 2 * hopSize + 1, 3000, 9000 }

(***************************************************************************)
(* The external pitch estimator (pitchy's PitchDetector.findPitch): a fixed *)
(* function of the decoded signal, here of the file and the frame's start   *)
(* sample.  It returns <<pitch, clarity>>.                                  *)
(***************************************************************************)
EstimatorTable ==
    << <<100, 90>>, <<59, 95>>, <<60, 80>>, <<501, 99>>, <<500, 85>>,
       <<220, 79>>, <<102, 88>>, <<98, 93>>, <<0, 0>>, <<300, 100>>,
       <<140, 81>> >>

findPitch(file, i) ==
    EstimatorTable[((i \div 100 + 3 * file.id) % Len(EstimatorTable)) + 1]

(***************************************************************************)
(* Array helpers with JavaScript's semantics (0-based indices).             *)
(***************************************************************************)
Max(a, b) == IF a >= b THEN a ELSE b
Min(a, b) == IF a <= b THEN a ELSE b

\* Array.prototype.slice(s, e): negative indices count from the end
JsSlice(arr, s, e) ==
    LET n  == Len(arr)
        s0 == IF s < 0 THEN Max(n + s, 0) ELSE Min(s, n)
        e0 == IF e < 0 THEN Max(n + e, 0) ELSE Min(e, n)
    IN  SubSeq(arr, s0 + 1, e0)

\* times.findIndex(t => t >= startTime): first 0-based index, or -1
FindIndexGE(times, startTime) ==
    LET hits == { k \in 1..Len(times) : times[k] >= startTime * SampleRate }
    IN  IF hits = {} THEN -1
        ELSE (CHOOSE k \in hits : \A m \in hits : k <= m) - 1

\* times.findIndex(t => t > endTime): first 0-based index, or -1
FindIndexGT(times, endTime) ==
    LET hits == { k \in 1..Len(times) : times[k] > endTime * SampleRate }
    IN  IF hits = {} THEN -1
        ELSE (CHOOSE k \in hits : \A m \in hits : k <= m) - 1

(***************************************************************************)
(* medianFilter                                                             *)
(***************************************************************************)
RECURSIVE Insert(_, _)
\* v put into the ascending sequence s
Insert(s, v) ==
    IF s = << >> THEN << v >>
    ELSE IF v <= Head(s) THEN << v >> \o s
    ELSE << Head(s) >> \o Insert(Tail(s), v)

RECURSIVE SortAsc(_)
\* window.sort((a, b) => a - b)
SortAsc(s) == IF s = << >> THEN << >> ELSE Insert(SortAsc(Tail(s)), Head(s))

RECURSIVE WindowValues(_, _, _)
\* the non-null values arr[j], lo <= j <= hi (1-based), in index order
WindowValues(arr, lo, hi) ==
    IF lo > hi THEN << >>
    ELSE (IF arr[lo] # Null THEN << arr[lo] >> ELSE << >>)
         \o WindowValues(arr, lo + 1, hi)

\* medianFilter as it would be if nothing were pushed for a window without
\* a valid value
medianFilterSkipsEmptyWindows(arr, windowSize) ==
    LET PushEach[k \in 0..Len(arr)] ==
            IF k = 0 THEN << >>
            ELSE LET i      == k - 1
                     lo     == Max(0, i - (windowSize \div 2))
                     hi     == Min(Len(arr) - 1, i + (windowSize \div 2))
                     window == SortAsc(WindowValues(arr, lo + 1, hi + 1))
                 IN  IF Len(window) > 0
                     THEN Append(PushEach[k - 1], window[(Len(window) \div 2) + 1])
                     ELSE PushEach[k - 1]
    IN  PushEach[Len(arr)]

\* medianFilter as it would be if the lower-middle element were taken for an
\* even count
medianFilterLowerMiddle(arr, windowSize) ==
    [ k \in 1..Len(arr) |->
        LET i      == k - 1
            lo     == Max(0, i - (windowSize \div 2))
            hi     == Min(Len(arr) - 1, i + (windowSize \div 2))
            window == SortAsc(WindowValues(arr, lo + 1, hi + 1))
        IN  IF Len(window) > 0
            THEN window[((Len(window) - 1) \div 2) + 1]
            ELSE Null ]

\* medianFilter as it would be if the half-width of the window were rounded
\* up: Math.ceil(windowSize / 2) to either side
medianFilterHalfWidthRoundedUp(arr, windowSize) ==
    [ k \in 1..Len(arr) |->
        LET i      == k - 1
            lo     == Max(0, i - ((windowSize + 1) \div 2))
            hi     == Min(Len(arr) - 1, i + ((windowSize + 1) \div 2))
            window == SortAsc(WindowValues(arr, lo + 1, hi + 1))
        IN  IF Len(window) > 0
            THEN window[(Len(window) \div 2) + 1]
            ELSE Null ]

\* medianFilter as it would be if it smoothed by the middle of the range of
\* the window (half the sum of its least and greatest value)
medianFilterMidRange(arr, windowSize) ==
    [ k \in 1..Len(arr) |->
        LET i      == k - 1
            lo     == Max(0, i - (windowSize \div 2))
            hi     == Min(Len(arr) - 1, i + (windowSize \div 2))
            window == SortAsc(WindowValues(arr, lo + 1, hi + 1))
        IN  IF Len(window) > 0
            THEN (window[1] + window[Len(window)]) \div 2
            ELSE Null ]

medianFilter(arr, windowSize) ==
    [ k \in 1..Len(arr) |->
        LET i      == k - 1
            lo     == Max(0, i - (windowSize \div 2))
            hi     == Min(Len(arr) - 1, i + (windowSize \div 2))
            window == SortAsc(WindowValues(arr, lo + 1, hi + 1))
        IN  IF Len(window) > 0
            THEN window[(Len(window) \div 2) + 1]
            ELSE Null ]

(***************************************************************************)
(* Frame sampling, thresholding and smoothing.                              *)
(***************************************************************************)
\* FrameStarts as it would be with the bound i + frameSize <= limit: the
\* frame that ends exactly at the limit is kept
FrameStartsKeepsFrameAtLimit(first, limit) ==
    LET room == limit - first - frameSize
        n    == IF room < 0 THEN 0 ELSE (room \div hopSize) + 1
    IN  [ k \in 1..n |-> first + (k - 1) * hopSize ]

\* for (let i = first; i + frameSize < limit; i += hopSize): the values of i
FrameStarts(first, limit) ==
    LET room == limit - first - frameSize
        n    == IF room <= 0 THEN 0 ELSE ((room - 1) \div hopSize) + 1
    IN  [ k \in 1..n |-> first + (k - 1) * hopSize ]

\* Threshold as it would be if a frequency outside the band were clamped
\* to the band instead of being discarded
ThresholdClamps(est) ==
    IF est[2] >= MIN_CLARITY
    THEN Max(MIN_PITCH, Min(est[1], MAX_PITCH))
    ELSE Null

\* the hard threshold applied to one estimate
Threshold(est) ==
    IF est[1] >= MIN_PITCH /\ est[1] <= MAX_PITCH /\ est[2] >= MIN_CLARITY
    THEN est[1] ELSE Null

\* AnalyseRange as it would be if the thresholded values were stored as
\* they are, without the smoothing
AnalyseRangeUnsmoothed(file, first, limit) ==
    LET starts == FrameStarts(first, limit)
        raw    == [ k \in 1..Len(starts) |-> Threshold(findPitch(file, starts[k])) ]
    IN  [ times |-> starts, pitches |-> raw ]

\* the frame loop and the smoothing shared by processEntireFile and
\* processSegment: {times, pitches} for the samples first..limit of file
AnalyseRange(file, first, limit) ==
    LET starts == FrameStarts(first, limit)
        raw    == [ k \in 1..Len(starts) |-> Threshold(findPitch(file, starts[k])) ]
    IN  [ times |-> starts, pitches |-> medianFilter(raw, MEDIAN_FILTER_SIZE) ]

\* the segment boundaries (seconds) a file of Files can give: the multiples
\* of segmentDuration up to its duration, and the duration
Boundaries ==
    UNION { { k * segmentDuration : k \in 0..(f.dur \div segmentDuration) }
              \cup { f.dur } : f \in Files }

\* AnalyseRange tabulated over the files and boundaries, so that the
\* analysis of a file between two boundaries is computed once
AnalysisTable ==
    [ f \in Files |->
        [ startTime \in Boundaries |->
            [ endTime \in Boundaries |->
                AnalyseRange(f, startTime * SampleRate, endTime * SampleRate) ] ] ]

\* processEntireFile(file): channelData.length = duration * sampleRate
processEntireFile(file) == AnalysisTable[file][0][file.dur]

\* the analysis part of processSegment, for the captured segment and file
\* AnalyseSegment as it would be if the frame loop started at sample 0
\* instead of startSample
AnalyseSegmentFromFileStart(file, segment) ==
    AnalysisTable[file][0][segment.endTime]

AnalyseSegment(file, segment) ==
    AnalysisTable[file][segment.startTime][segment.endTime]

(***************************************************************************)
(* State.                                                                   *)
(***************************************************************************)
VARIABLES
    segments,          \* this.segments: index -> PitchSegment
    segOrder,          \* insertion order of the keys of this.segments
    totalDuration,     \* this.totalDuration
    isProgressiveMode, \* this.isProgressiveMode
    currentFile,       \* this.currentFile
    calls,             \* the loadSegmentsForTimeRange calls in flight
    inits,             \* the initialize calls in flight
    ops,               \* history: number of public operations issued so far
    loaded,            \* history: the file of the last initialize that succeeded
    failedSegs,        \* history: indices whose last analysis attempt failed
    evt                \* history: what the last step did

vars ==
    << segments, segOrder, totalDuration, isProgressiveMode, currentFile,
       calls, inits, ops, loaded, failedSegs, evt >>

CallIds == 1..MaxCalls
InitIds == 1..MaxInits

NoSegment ==
    [ startTime |-> 0, endTime |-> 0, times |-> << >>, pitches |-> << >>,
      isProcessed |-> FALSE ]

\* a loadSegmentsForTimeRange call that is not in flight.  Its locals are
\* startTime .. file; the rest is history: overlap (another operation was
\* issued or in flight during the call), progressive (the mode the call
\* found), older (the calls that were in flight when it was issued and still
\* are) and left (the segments a call issued later had processed when it
\* returned during this call)
IdleCall ==
    [ pc |-> "idle", startTime |-> 0, endTime |-> 0, startSegment |-> 0,
      endSegment |-> 0, i |-> 0, segment |-> NoSegment, file |-> NoFile,
      overlap |-> FALSE, progressive |-> FALSE, older |-> {}, left |-> {} ]

\* an initialize call that is not in flight
\* history: the fields of the manager as an initialize call found them, kept
\* while the call runs alone (nothing in flight when it was issued, no load or
\* initialize issued since)
NoEntry ==
    [ alone |-> FALSE, currentFile |-> NoFile, totalDuration |-> 0,
      isProgressiveMode |-> FALSE, segments |-> << >> ]

\* an initialize call that is not in flight; entry is history
IdleInit == [ pc |-> "idle", file |-> NoFile, entry |-> NoEntry ]

\* a step that stored no analysis
NoWrite == [ prior |-> NoSegment, stored |-> NoSegment, file |-> NoFile ]

\* the answer of a range query that returned no sample
NoData == [ times |-> << >>, pitches |-> << >> ]

\* history of one step: what it did, the call or file it belongs to, the
\* store cleanupOldSegments was handed (before), the answer a query gave
\* (data), the segment a stored analysis replaced, the one it stored and the
\* file it was computed from (write), the fields a failed initialize had
\* found when it was called (entry)
Event(kind, call, file) ==
    [ kind |-> kind, call |-> call, file |-> file, before |-> << >>,
      data |-> NoData, write |-> NoWrite, entry |-> NoEntry ]

NoEvent == Event("none", IdleCall, NoFile)

CallsInFlight == { c \in CallIds : calls[c].pc # "idle" }
InitsInFlight == { n \in InitIds : inits[n].pc # "idle" }

(***************************************************************************)
(* Map helpers.                                                             *)
(***************************************************************************)
\* Map.prototype.set: the value of key k; a new key is appended to the order
MapSet(m, k, v) == [ j \in (DOMAIN m) \cup {k} |-> IF j = k THEN v ELSE m[j] ]

OrderSet(order, m, k) == IF k \in DOMAIN m THEN order ELSE Append(order, k)

(***************************************************************************)
(* initializeSegments                                                       *)
(***************************************************************************)
\* Math.ceil(totalDuration / segmentDuration)
NumSegments(duration) == (duration + segmentDuration - 1) \div segmentDuration

\* the segment initializeSegments creates for index i
FreshSegment(i, duration) ==
    [ startTime |-> i * segmentDuration,
      endTime |-> Min(i * segmentDuration + segmentDuration, duration),
      times |-> << >>, pitches |-> << >>, isProcessed |-> FALSE ]

RECURSIVE InitSegmentsFrom(_, _, _, _)
\* the loop of initializeSegments from index i on: <<map, order>>
InitSegmentsFrom(m, order, i, duration) ==
    IF i >= NumSegments(duration) THEN << m, order >>
    ELSE InitSegmentsFrom(MapSet(m, i, FreshSegment(i, duration)),
                          OrderSet(order, m, i), i + 1, duration)

initializeSegments(m, order, duration) == InitSegmentsFrom(m, order, 0, duration)

(***************************************************************************)
(* cleanupOldSegments                                                       *)
(***************************************************************************)
\* a keep-set of maxCachedSegments + 1 indices (the array one longer)
segmentsToKeepOneMore(currentSegment) ==
    { currentSegment + i - (maxCachedSegments \div 2) : i \in 0..maxCachedSegments }

\* a keep-set that ends just before the current segment (offset by the whole
\* length instead of half of it)
segmentsToKeepBeforeCurrent(currentSegment) ==
    { currentSegment + i - maxCachedSegments : i \in 0..(maxCachedSegments - 1) }

segmentsToKeep(currentSegment) ==
    { currentSegment + i - (maxCachedSegments \div 2) : i \in 0..(maxCachedSegments - 1) }

\* cleanupOldSegments as it would be if the keep-set began at the current
\* segment instead of being centred on it
cleanupKeepsFromCurrent(m, currentSegment) ==
    [ index \in DOMAIN m |->
        IF /\ index \notin { currentSegment + i : i \in 0..(maxCachedSegments - 1) }
           /\ m[index].isProcessed
        THEN [ m[index] EXCEPT !.times = << >>, !.pitches = << >>,
                               !.isProcessed = FALSE ]
        ELSE m[index] ]

\* cleanupOldSegments as it would be if the cleared segment were built
\* without the spread of the old one (...segment), losing its boundaries
cleanupResetsBoundaries(m, currentSegment) ==
    [ index \in DOMAIN m |->
        IF index \notin segmentsToKeep(currentSegment) /\ m[index].isProcessed
        THEN NoSegment
        ELSE m[index] ]

\* cleanupOldSegments as it would be if one pass cleared only the first
\* processed segment it finds outside the keep-set
cleanupEvictsOnePerPass(m, currentSegment) ==
    LET out == { index \in DOMAIN m :
                   index \notin segmentsToKeep(currentSegment)
                   /\ m[index].isProcessed }
    IN  [ index \in DOMAIN m |->
            IF index \in out /\ \A other \in out : index <= other
            THEN [ m[index] EXCEPT !.times = << >>, !.pitches = << >>,
                                   !.isProcessed = FALSE ]
            ELSE m[index] ]

\* cleanupOldSegments as it would be if an evicted segment kept its arrays
\* and lost only the flag
cleanupKeepsSamples(m, currentSegment) ==
    [ index \in DOMAIN m |->
        IF index \notin segmentsToKeep(currentSegment) /\ m[index].isProcessed
        THEN [ m[index] EXCEPT !.isProcessed = FALSE ]
        ELSE m[index] ]

\* cleanupOldSegments as it would be if it evicted only "if needed": when
\* more than maxCachedSegments segments are processed
cleanupOnlyOverCapacity(m, currentSegment) ==
    IF Cardinality({ index \in DOMAIN m : m[index].isProcessed }) <= maxCachedSegments
    THEN m
    ELSE [ index \in DOMAIN m |->
             IF index \notin segmentsToKeep(currentSegment) /\ m[index].isProcessed
             THEN [ m[index] EXCEPT !.times = << >>, !.pitches = << >>,
                                    !.isProcessed = FALSE ]
             ELSE m[index] ]

\* cleanupOldSegments as it would be if an evicted entry kept its start time
\* only (the end time cleared with the data)
cleanupDropsEndTime(m, currentSegment) ==
    LET keep == segmentsToKeep(currentSegment)
    IN  [ index \in DOMAIN m |->
            IF index \notin keep /\ m[index].isProcessed
            THEN [ m[index] EXCEPT !.endTime = m[index].startTime,
                                   !.times = << >>, !.pitches = << >>,
                                   !.isProcessed = FALSE ]
            ELSE m[index] ]

cleanupOldSegments(m, currentSegment) ==
    LET keep == segmentsToKeep(currentSegment)
    IN  [ index \in DOMAIN m |->
            IF index \notin keep /\ m[index].isProcessed
            THEN [ m[index] EXCEPT !.times = << >>, !.pitches = << >>,
                                   !.isProcessed = FALSE ]
            ELSE m[index] ]

(***************************************************************************)
(* getPitchDataForTimeRange                                                 *)
(***************************************************************************)
RECURSIVE CollectFrom(_, _, _, _, _)
\* the loop over this.segments.values(), from position k of the key order
CollectFrom(m, order, k, startTime, endTime) ==
    IF k > Len(order) THEN [ times |-> << >>, pitches |-> << >> ]
    ELSE LET segment == m[order[k]]
             rest    == CollectFrom(m, order, k + 1, startTime, endTime)
         IN  IF /\ segment.isProcessed
                /\ segment.endTime >= startTime
                /\ segment.startTime <= endTime
             THEN LET startIdx == FindIndexGE(segment.times, startTime)
                      endIdx   == FindIndexGT(segment.times, endTime)
                  IN  [ times |-> JsSlice(segment.times, startIdx, endIdx) \o rest.times,
                        pitches |-> JsSlice(segment.pitches, startIdx, endIdx) \o rest.pitches ]
             ELSE rest

getPitchDataForTimeRange(startTime, endTime) ==
    CollectFrom(segments, segOrder, 1, startTime, endTime)

(***************************************************************************)
(* Init: the manager after construction.                                    *)
(***************************************************************************)
Init ==
    /\ segments = << >>
    /\ segOrder = << >>
    /\ totalDuration = 0
    /\ isProgressiveMode = FALSE
    /\ currentFile = NoFile
    /\ calls = [ c \in CallIds |-> IdleCall ]
    /\ inits = [ n \in InitIds |-> IdleInit ]
    /\ ops = 0
    /\ loaded = NoFile
    /\ failedSegs = {}
    /\ evt = NoEvent

\* a new operation is issued while calls are suspended: they no longer run alone
MarkOverlap(cs) ==
    [ c \in CallIds |->
        IF cs[c].pc # "idle" THEN [ cs[c] EXCEPT !.overlap = TRUE ] ELSE cs[c] ]

\* a load or an initialize is issued while initialize calls are suspended:
\* they no longer run alone
NotAlone(is) == [ n \in InitIds |-> [ is[n] EXCEPT !.entry = NoEntry ] ]

\* the free slot a new call takes
FreeCall(c) == /\ calls[c].pc = "idle"
               /\ \A d \in CallIds : d < c => calls[d].pc # "idle"

FreeInit(n) == /\ inits[n].pc = "idle"
               /\ \A d \in InitIds : d < n => inits[d].pc # "idle"

(***************************************************************************)
(* initialize(file)                                                         *)
(***************************************************************************)
\* initialize up to its first await: this.currentFile = file, then the
\* metadata probe getFileDuration(file) is awaited
InitStart(n, file) ==
    /\ ops < MaxOps
    /\ FreeInit(n)
    /\ currentFile' = file
    /\ inits' = [ NotAlone(inits) EXCEPT ![n] =
                   [ pc |-> "duration", file |-> file,
                     entry |-> IF CallsInFlight = {} /\ InitsInFlight = {}
                               THEN [ alone |-> TRUE,
                                      currentFile |-> currentFile,
                                      totalDuration |-> totalDuration,
                                      isProgressiveMode |-> isProgressiveMode,
                                      segments |-> segments ]
                               ELSE NoEntry ] ]
    /\ calls' = MarkOverlap(calls)
    /\ ops' = ops + 1
    /\ evt' = Event("initStart", IdleCall, file)
    /\ UNCHANGED << segments, segOrder, totalDuration, isProgressiveMode,
                    loaded, failedSegs >>

\* getFileDuration resolved: the mode is chosen; in progressive mode the
\* segment map is initialised and initialize returns, otherwise
\* processEntireFile is entered and suspends at its decode
InitDurationResolve(n) ==
    /\ inits[n].pc = "duration"
    /\ LET file == inits[n].file
           prog == file.dur > thresholdDuration
       IN  /\ totalDuration' = file.dur
           /\ isProgressiveMode' = prog
           /\ IF prog
              THEN LET r == initializeSegments(segments, segOrder, file.dur)
                   IN  /\ segments' = r[1]
                       /\ segOrder' = r[2]
                       /\ inits' = [ inits EXCEPT ![n] = IdleInit ]
                       /\ loaded' = file
                       /\ failedSegs' = {}
                       /\ evt' = Event("initDone", IdleCall, file)
              ELSE /\ inits' = [ inits EXCEPT ![n].pc = "entire" ]
                   /\ evt' = Event("initDuration", IdleCall, file)
                   /\ UNCHANGED << segments, segOrder, loaded, failedSegs >>
    /\ UNCHANGED << currentFile, calls, ops >>

\* getFileDuration rejected ('Could not load audio file'): initialize throws
InitDurationReject(n) ==
    /\ inits[n].pc = "duration"
    /\ inits' = [ inits EXCEPT ![n] = IdleInit ]
    /\ evt' = [ Event("initFail", IdleCall, inits[n].file)
                EXCEPT !.entry = inits[n].entry ]
    /\ UNCHANGED << segments, segOrder, totalDuration, isProgressiveMode,
                    currentFile, calls, ops, loaded, failedSegs >>

\* processEntireFile resolved: segment 0 is set to the whole-file analysis
InitEntireResolve(n) ==
    /\ inits[n].pc = "entire"
    /\ LET file == inits[n].file
           fullPitchData == processEntireFile(file)
           whole == [ startTime |-> 0, endTime |-> totalDuration,
                      times |-> fullPitchData.times,
                      pitches |-> fullPitchData.pitches,
                      isProcessed |-> TRUE ]
       IN  /\ segments' = MapSet(segments, 0, whole)
           /\ segOrder' = OrderSet(segOrder, segments, 0)
           /\ loaded' = file
           /\ evt' = [ Event("initDone", IdleCall, file)
                       EXCEPT !.write =
                         [ prior |-> IF 0 \in DOMAIN segments
                                     THEN segments[0] ELSE NoSegment,
                           stored |-> whole, file |-> file ] ]
    /\ inits' = [ inits EXCEPT ![n] = IdleInit ]
    /\ failedSegs' = {}
    /\ UNCHANGED << totalDuration, isProgressiveMode, currentFile, calls, ops >>

\* file.arrayBuffer() or decodeAudioData rejected in processEntireFile
InitEntireReject(n) ==
    /\ inits[n].pc = "entire"
    /\ inits' = [ inits EXCEPT ![n] = IdleInit ]
    /\ evt' = [ Event("initFail", IdleCall, inits[n].file)
                EXCEPT !.entry = inits[n].entry ]
    /\ UNCHANGED << segments, segOrder, totalDuration, isProgressiveMode,
                    currentFile, calls, ops, loaded, failedSegs >>

(***************************************************************************)
(* loadSegmentsForTimeRange(startTime, endTime)                             *)
(***************************************************************************)
\* LoopTodo as it would be if the loop stopped at endSegment, without the
\* preloaded segments
LoopTodoNoPreload(m, rec, from) ==
    { j \in from..rec.endSegment : j \in DOMAIN m /\ ~m[j].isProcessed }

\* the indices the for loop still has to analyse, from index `from` on, in
\* store m: those that exist and are unprocessed
LoopTodo(m, rec, from) ==
    { j \in from..(rec.endSegment + preloadSegments) :
        j \in DOMAIN m /\ ~m[j].isProcessed }

\* the calls after call c has thrown: its slot is free
Released(cs, c) ==
    [ d \in CallIds |->
        IF d = c THEN IdleCall ELSE [ cs[d] EXCEPT !.older = @ \ { c } ] ]

\* the calls after call c, with locals rec, has returned leaving store m:
\* the calls issued before it that are still in flight note what it left
ReturnedBeside(cs, c, rec, m) ==
    [ d \in CallIds |->
        IF d = c THEN IdleCall
        ELSE IF d \in rec.older
             THEN [ cs[d] EXCEPT
                      !.left = { j \in DOMAIN m : m[j].isProcessed } ]
             ELSE [ cs[d] EXCEPT !.older = @ \ { c } ] ]

\* The for loop of call c from index `from` on, in store m, up to the next
\* suspension: either processSegment is entered for the first index to
\* analyse (it captures the segment and this.currentFile and suspends at
\* its decode), or the loop ends, cleanupOldSegments runs and the call
\* returns.
RunLoop(c, rec, m, from, cs, write) ==
    LET todo == LoopTodo(m, rec, from)
    IN  IF todo = {}
        THEN /\ segments' = cleanupOldSegments(m, rec.startSegment)
             /\ calls' = ReturnedBeside(cs, c, rec, segments')
             /\ evt' = [ Event("loadReturn", rec, currentFile)
                         EXCEPT !.before = m, !.write = write ]
        ELSE LET j == CHOOSE k \in todo : \A l \in todo : k <= l
             IN  IF currentFile = NoFile
                 THEN \* throw new Error('No file loaded')
                      /\ segments' = m
                      /\ calls' = Released(cs, c)
                      /\ evt' = [ Event("loadFail",
                                          [ rec EXCEPT !.i = j, !.segment = m[j] ],
                                          currentFile)
                                  EXCEPT !.write = write ]
                 ELSE LET next == [ rec EXCEPT !.pc = "decode", !.i = j,
                                               !.segment = m[j],
                                               !.file = currentFile ]
                      IN  /\ segments' = m
                          /\ calls' = [ cs EXCEPT ![c] = next ]
                          /\ evt' = [ Event("loadSuspend", next, currentFile)
                                      EXCEPT !.write = write ]

\* LoadStart as it would be without the early return of whole-file mode
LoadStartSkipsModeCheck(c, startTime, endTime) ==
    /\ ops < MaxOps
    /\ FreeCall(c)
    /\ ops' = ops + 1
    /\ LET rec == [ IdleCall EXCEPT
                      !.startTime = startTime, !.endTime = endTime,
                      !.startSegment = startTime \div segmentDuration,
                      !.endSegment = endTime \div segmentDuration,
                      !.overlap = (CallsInFlight # {} \/ InitsInFlight # {}),
                      !.progressive = isProgressiveMode,
                      !.older = CallsInFlight ]
       IN  RunLoop(c, rec, segments, rec.startSegment, MarkOverlap(calls),
                        NoWrite)
    /\ inits' = NotAlone(inits)
    /\ UNCHANGED << segOrder, totalDuration, isProgressiveMode, currentFile,
                    loaded, failedSegs >>

\* the call up to its first await
LoadStart(c, startTime, endTime) ==
    /\ ops < MaxOps
    /\ FreeCall(c)
    /\ ops' = ops + 1
    /\ LET rec == [ IdleCall EXCEPT
                      !.startTime = startTime, !.endTime = endTime,
                      !.startSegment = startTime \div segmentDuration,
                      !.endSegment = endTime \div segmentDuration,
                      !.overlap = (CallsInFlight # {} \/ InitsInFlight # {}),
                      !.progressive = isProgressiveMode,
                      !.older = CallsInFlight ]
       IN  IF ~isProgressiveMode
           THEN /\ evt' = Event("loadReturn", rec, currentFile)
                /\ calls' = MarkOverlap(calls)
                /\ UNCHANGED segments
           ELSE RunLoop(c, rec, segments, rec.startSegment, MarkOverlap(calls),
                        NoWrite)
    /\ inits' = NotAlone(inits)
    /\ UNCHANGED << segOrder, totalDuration, isProgressiveMode, currentFile,
                    loaded, failedSegs >>

\* DecodeResolve as it would be with cancellation: a call that a newer
\* operation has superseded drops its analysis and ends without eviction
DecodeResolveCancelsSuperseded(c) ==
    /\ calls[c].pc = "decode"
    /\ IF calls[c].overlap
       THEN /\ calls' = Released(calls, c)
            /\ evt' = Event("loadCancel", calls[c], currentFile)
            /\ UNCHANGED << segments, segOrder, failedSegs >>
       ELSE LET rec  == calls[c]
                data == AnalyseSegment(rec.file, rec.segment)
                done == [ rec.segment EXCEPT !.times = data.times,
                                             !.pitches = data.pitches,
                                             !.isProcessed = TRUE ]
            IN  /\ RunLoop(c, rec, MapSet(segments, rec.i, done), rec.i + 1, calls,
                       [ prior |-> segments[rec.i], stored |-> done,
                         file |-> rec.file ])
                /\ segOrder' = OrderSet(segOrder, segments, rec.i)
                /\ failedSegs' = failedSegs \ { rec.i }
    /\ UNCHANGED << totalDuration, isProgressiveMode, currentFile, inits,
                    ops, loaded >>

\* DecodeResolve as it would be if the analysis were added to what the
\* store holds at the index instead of replacing it
DecodeResolveAppendsToStore(c) ==
    /\ calls[c].pc = "decode"
    /\ LET rec  == calls[c]
           data == AnalyseSegment(rec.file, rec.segment)
           done == [ rec.segment EXCEPT
                       !.times = segments[rec.i].times \o data.times,
                       !.pitches = segments[rec.i].pitches \o data.pitches,
                       !.isProcessed = TRUE ]
       IN  /\ RunLoop(c, rec, MapSet(segments, rec.i, done), rec.i + 1, calls,
                       [ prior |-> segments[rec.i], stored |-> done,
                         file |-> rec.file ])
           /\ segOrder' = OrderSet(segOrder, segments, rec.i)
           /\ failedSegs' = failedSegs \ { rec.i }
    /\ UNCHANGED << totalDuration, isProgressiveMode, currentFile, inits,
                    ops, loaded >>

\* DecodeResolve as it would be if the loop did not await processSegment:
\* the loop goes on to the next segment before the analysis is stored
DecodeResolveDefersWrite(c) ==
    /\ calls[c].pc = "decode"
    /\ RunLoop(c, calls[c], segments, calls[c].i + 1, calls, NoWrite)
    /\ UNCHANGED << segOrder, totalDuration, isProgressiveMode, currentFile,
                    inits, ops, loaded, failedSegs >>

\* the decode of processSegment resolved: the captured segment is analysed
\* from the captured file and stored, and the for loop goes on
DecodeResolve(c) ==
    /\ calls[c].pc = "decode"
    /\ LET rec  == calls[c]
           data == AnalyseSegment(rec.file, rec.segment)
           done == [ rec.segment EXCEPT !.times = data.times,
                                        !.pitches = data.pitches,
                                        !.isProcessed = TRUE ]
       IN  /\ RunLoop(c, rec, MapSet(segments, rec.i, done), rec.i + 1, calls,
                       [ prior |-> segments[rec.i], stored |-> done,
                         file |-> rec.file ])
           /\ segOrder' = OrderSet(segOrder, segments, rec.i)
           /\ failedSegs' = failedSegs \ { rec.i }
    /\ UNCHANGED << totalDuration, isProgressiveMode, currentFile, inits,
                    ops, loaded >>

\* DecodeReject as it would be if the failure path stored the segment as
\* analysed with no data (a write in a catch or finally block)
DecodeRejectMarksProcessed(c) ==
    /\ calls[c].pc = "decode"
    /\ calls' = Released(calls, c)
    /\ failedSegs' = failedSegs \cup { calls[c].i }
    /\ evt' = Event("loadFail", calls[c], currentFile)
    /\ segments' = MapSet(segments, calls[c].i,
                          [ calls[c].segment EXCEPT !.isProcessed = TRUE ])
    /\ UNCHANGED << segOrder, totalDuration, isProgressiveMode,
                    currentFile, inits, ops, loaded >>

\* file.arrayBuffer() or decodeAudioData rejected in processSegment: the
\* exception leaves processSegment and loadSegmentsForTimeRange
DecodeReject(c) ==
    /\ calls[c].pc = "decode"
    /\ calls' = Released(calls, c)
    /\ failedSegs' = failedSegs \cup { calls[c].i }
    /\ evt' = Event("loadFail", calls[c], currentFile)
    /\ UNCHANGED << segments, segOrder, totalDuration, isProgressiveMode,
                    currentFile, inits, ops, loaded >>

(***************************************************************************)
(* getPitchDataForTimeRange(startTime, endTime) as an operation of a run   *)
(***************************************************************************)
\* QueryPitchData as it would be if the read also ran the evictor around
\* the queried window
QueryPitchDataEvicts(startTime, endTime) ==
    /\ ops < MaxOps
    /\ ops' = ops + 1
    /\ segments' = cleanupOldSegments(segments, startTime \div segmentDuration)
    /\ evt' = [ Event("query",
                      [ IdleCall EXCEPT !.startTime = startTime,
                                        !.endTime = endTime ],
                      currentFile)
                EXCEPT !.data = getPitchDataForTimeRange(startTime, endTime) ]
    /\ UNCHANGED << segOrder, totalDuration, isProgressiveMode,
                    currentFile, calls, inits, loaded, failedSegs >>

\* the synchronous call: it runs to completion in one step and returns data
QueryPitchData(startTime, endTime) ==
    /\ ops < MaxOps
    /\ ops' = ops + 1
    /\ evt' = [ Event("query",
                      [ IdleCall EXCEPT !.startTime = startTime,
                                        !.endTime = endTime ],
                      currentFile)
                EXCEPT !.data = getPitchDataForTimeRange(startTime, endTime) ]
    /\ UNCHANGED << segments, segOrder, totalDuration, isProgressiveMode,
                    currentFile, calls, inits, loaded, failedSegs >>

Next ==
    \/ \E n \in InitIds, file \in Files : InitStart(n, file)
    \/ \E n \in InitIds : InitDurationResolve(n)
    \/ \E n \in InitIds : InitDurationReject(n)
    \/ \E n \in InitIds : InitEntireResolve(n)
    \/ \E n \in InitIds : InitEntireReject(n)
    \/ \E c \in CallIds, r \in LoadRanges : LoadStart(c, r[1], r[2])
    \/ \E c \in CallIds : DecodeResolve(c)
    \/ \E c \in CallIds : DecodeReject(c)
    \/ \E r \in QueryRanges : QueryPitchData(r[1], r[2])

Spec == Init /\ [][Next]_vars

(***************************************************************************)
(* The runs in which every decode succeeds and every pending continuation   *)
(* is eventually run: the event loop runs the continuation of a settled     *)
(* promise, and a decode (file.arrayBuffer, decodeAudioData) settles.       *)
(***************************************************************************)
NextDecodesSucceed ==
    \/ \E n \in InitIds, file \in Files : InitStart(n, file)
    \/ \E n \in InitIds : InitDurationResolve(n)
    \/ \E n \in InitIds : InitEntireResolve(n)
    \/ \E c \in CallIds, r \in FairLoadRanges : LoadStart(c, r[1], r[2])
    \/ \E c \in CallIds : DecodeResolve(c)

FairSpec ==
    /\ Init
    /\ [][NextDecodesSucceed]_vars
    /\ WF_vars(\E c \in CallIds : DecodeResolve(c))

(***************************************************************************)
(* The extraction pipeline on its own: the threshold, medianFilter and the  *)
(* frame loop applied to given inputs, one application in a run.  evt holds *)
(* the application; the manager is not touched.                             *)
(***************************************************************************)
ManagerUntouched ==
    UNCHANGED << segments, segOrder, totalDuration, isProgressiveMode,
                 currentFile, calls, inits, ops, loaded, failedSegs >>

\* the if of the frame loop, applied to one estimate
ApplyThreshold(pitch, clarity) ==
    /\ evt = NoEvent
    /\ evt' = [ kind |-> "threshold", pitch |-> pitch, clarity |-> clarity,
                raw |-> Threshold(<< pitch, clarity >>) ]
    /\ ManagerUntouched

ApplyMedianFilter(arr, windowSize) ==
    /\ evt = NoEvent
    /\ evt' = [ kind |-> "medianFilter", arr |-> arr, windowSize |-> windowSize,
                result |-> medianFilter(arr, windowSize) ]
    /\ ManagerUntouched

\* the frame loop over the samples first..limit of a file
ApplyFrameLoop(file, first, limit) ==
    /\ evt = NoEvent
    /\ evt' = [ kind |-> "frames", file |-> file, first |-> first,
                limit |-> limit, result |-> AnalyseRange(file, first, limit) ]
    /\ ManagerUntouched

\* processSegment's analysis of segment i of a progressive-mode file
ApplyProcessSegment(file, i) ==
    /\ evt = NoEvent
    /\ file.dur > thresholdDuration
    /\ evt' = [ kind |-> "processSegment", file |-> file,
                segment |-> FreshSegment(i, file.dur),
                result |-> AnalyseSegment(file, FreshSegment(i, file.dur)) ]
    /\ ManagerUntouched

\* processEntireFile of a whole-file-mode file
ApplyProcessEntireFile(file) ==
    /\ evt = NoEvent
    /\ file.dur <= thresholdDuration
    /\ evt' = [ kind |-> "processEntireFile", file |-> file,
                result |-> processEntireFile(file) ]
    /\ ManagerUntouched

\* processSegment's store write for entry `segment` of a file (lines 196-201)
Processed(file, segment) ==
    [ segment EXCEPT !.times = AnalyseSegment(file, segment).times,
                     !.pitches = AnalyseSegment(file, segment).pitches,
                     !.isProcessed = TRUE ]

\* segment i of a freshly initialised store is analysed, a call centred on
\* currentSegment runs its cleanup, and processSegment(i) is called again: it
\* returns at once when the entry is still processed (line 161) and analyses
\* the entry the eviction left otherwise
ApplyEvictReload(file, i, currentSegment) ==
    /\ evt = NoEvent
    /\ file.dur > thresholdDuration
    /\ LET fresh   == [ j \in 0..(NumSegments(file.dur) - 1) |->
                          FreshSegment(j, file.dur) ]
           first   == Processed(file, fresh[i])
           evicted == cleanupOldSegments(MapSet(fresh, i, first), currentSegment)[i]
       IN  evt' = [ kind |-> "evictReload", file |-> file, index |-> i,
                    currentSegment |-> currentSegment,
                    first |-> first, evicted |-> evicted,
                    again |-> IF evicted.isProcessed THEN evicted
                              ELSE Processed(file, evicted) ]
    /\ ManagerUntouched

NextExtraction ==
    \/ \E pitch \in PitchValues, clarity \in ClarityValues :
          ApplyThreshold(pitch, clarity)
    \/ \E arr \in FilterArrays, windowSize \in WindowSizes :
          ApplyMedianFilter(arr, windowSize)
    \/ \E file \in Files, first \in SampleRangeStarts, len \in SampleRangeLengths :
          ApplyFrameLoop(file, first, first + len)
    \/ \E file \in Files : \E i \in 0..(NumSegments(file.dur) - 1) :
          ApplyProcessSegment(file, i)
    \/ \E file \in Files : ApplyProcessEntireFile(file)
    \/ \E file \in Files, r \in LoadRanges :
          \E i \in 0..(NumSegments(file.dur) - 1) :
             ApplyEvictReload(file, i, r[1] \div segmentDuration)

ExtractionSpec == Init /\ [][NextExtraction]_vars

(***************************************************************************)
(* Statements checked against the model.                                    *)
(***************************************************************************)
\* the segment indices of a source of the given duration
ValidIndices(duration) == 0..(NumSegments(duration) - 1)

\* segmentIndexForTime of the specification: floor(t / segmentDuration),
\* clamped to the valid indices of the loaded source
segmentIndexForTime(t) ==
    Max(0, Min(t \div segmentDuration, NumSegments(totalDuration) - 1))

ProcessedIndices == { i \in DOMAIN segments : segments[i].isProcessed }

\* the segment map a successful initialize(file) is specified to produce
DerivedSegments(file) ==
    IF file.dur > thresholdDuration
    THEN [ i \in ValidIndices(file.dur) |-> FreshSegment(i, file.dur) ]
    ELSE [ i \in {0} |->
             [ startTime |-> 0, endTime |-> file.dur,
               times |-> processEntireFile(file).times,
               pitches |-> processEntireFile(file).pitches,
               isProcessed |-> TRUE ] ]

\* C1: after a successful initialize(file) the segment map holds exactly the
\* segments derived from the new file's duration and mode; nothing created
\* for a previously loaded source remains.
C1_InitializeReplacesStore ==
    evt.kind = "initDone" => segments = DerivedSegments(evt.file)

\* C2: in progressive mode the number of processed segments never exceeds
\* maxCachedSegments, in any reachable state (mid-batch states included).
C2_ProcessedAtMostMaxCached ==
    isProgressiveMode => Cardinality(ProcessedIndices) <= maxCachedSegments

\* C3: when a loadSegmentsForTimeRange(start, end) call that ran alone in
\* progressive mode returns without error, every existing segment with index
\* in [segmentIndexForTime(start), segmentIndexForTime(end) + preloadSegments]
\* is processed.  (Stated for start and end inside the source, so that it
\* does not rest on how out-of-range times are treated.)
C3_WindowProcessedOnReturn ==
    ( /\ evt.kind = "loadReturn"
      /\ isProgressiveMode
      /\ ~evt.call.overlap
      /\ 0 <= evt.call.startTime
      /\ evt.call.endTime < totalDuration )
    => \A i \in DOMAIN segments :
          ( /\ i >= segmentIndexForTime(evt.call.startTime)
            /\ i <= segmentIndexForTime(evt.call.endTime) + preloadSegments )
          => segments[i].isProcessed

\* positions k of times whose time t satisfies startTime <= t <= endTime
RECURSIVE SamplesWithin(_, _, _, _)
SamplesWithin(segment, k, startTime, endTime) ==
    IF k > Len(segment.times) THEN [ times |-> << >>, pitches |-> << >> ]
    ELSE LET rest == SamplesWithin(segment, k + 1, startTime, endTime)
         IN  IF /\ segment.times[k] >= startTime * SampleRate
                /\ segment.times[k] <= endTime * SampleRate
             THEN [ times |-> << segment.times[k] >> \o rest.times,
                    pitches |-> << segment.pitches[k] >> \o rest.pitches ]
             ELSE rest

\* the answer specified for getPitchDataForTimeRange: over the processed
\* segments overlapping [startTime, endTime], from index i on in ascending
\* index order, the samples with startTime <= t <= endTime
RECURSIVE SpecifiedRange(_, _, _)
SpecifiedRange(i, startTime, endTime) ==
    LET later == { j \in DOMAIN segments : j >= i }
    IN  IF later = {} THEN [ times |-> << >>, pitches |-> << >> ]
        ELSE LET j    == CHOOSE k \in later : \A l \in later : k <= l
                 rest == SpecifiedRange(j + 1, startTime, endTime)
                 seg  == segments[j]
             IN  IF /\ seg.isProcessed
                    /\ seg.endTime >= startTime
                    /\ seg.startTime <= endTime
                 THEN LET own == SamplesWithin(seg, 1, startTime, endTime)
                      IN  [ times |-> own.times \o rest.times,
                            pitches |-> own.pitches \o rest.pitches ]
                 ELSE rest

\* C4: getPitchDataForTimeRange(start, end) returns, over the processed
\* segments overlapping [start, end] in ascending index order, exactly the
\* samples with start <= t <= end, losing none when no sample lies after end.
C4_QueryReturnsExactSamples ==
    \A a \in QueryTimes, b \in QueryTimes :
        a <= b =>
          getPitchDataForTimeRange(a, b)
            = SpecifiedRange(0 - 1000, a, b)

\* C5: whenever a progressive-mode source is loaded, segment i covers
\* [i*segmentDuration, min((i+1)*segmentDuration, totalDuration)) and the
\* indices are exactly 0..ceil(totalDuration/segmentDuration)-1, so the
\* segments are contiguous, disjoint and cover [0, totalDuration).
C5_PartitionInvariant ==
    isProgressiveMode =>
        /\ DOMAIN segments = ValidIndices(totalDuration)
        /\ \A i \in DOMAIN segments :
              /\ segments[i].startTime = i * segmentDuration
              /\ segments[i].endTime
                   = Min((i + 1) * segmentDuration, totalDuration)

\* C6: after every successful initialize, a source of at most
\* thresholdDuration gives exactly one segment [0, totalDuration) and
\* whole-file mode; a longer one gives ceil(totalDuration/segmentDuration)
\* segments, all unprocessed, and progressive mode.
C6_ModeSelection ==
    evt.kind = "initDone" =>
        IF totalDuration <= thresholdDuration
        THEN /\ Cardinality(DOMAIN segments) = 1
             /\ 0 \in DOMAIN segments
             /\ segments[0].startTime = 0
             /\ segments[0].endTime = totalDuration
             /\ ~isProgressiveMode
        ELSE /\ Cardinality(DOMAIN segments) = NumSegments(totalDuration)
             /\ ProcessedIndices = {}
             /\ isProgressiveMode

\* C7: the segment indices a call derives from start and end are valid
\* indices of the loaded source, for out-of-range times too: when a call
\* that ran alone in progressive mode returns, the centre it handed to the
\* evictor and its end index are valid indices.
C7_IndicesClamped ==
    ( /\ evt.kind = "loadReturn"
      /\ isProgressiveMode
      /\ ~evt.call.overlap )
    => /\ evt.call.startSegment \in ValidIndices(totalDuration)
       /\ evt.call.endSegment \in ValidIndices(totalDuration)

\* C8: a loadSegmentsForTimeRange call on a manager for which no initialize
\* has succeeded does not return successfully.
C8_LoadWithoutSourceFails ==
    evt.kind = "loadReturn" => loaded # NoFile

RejectStep(c) ==
    /\ calls[c].pc = "decode"
    /\ calls'[c].pc = "idle"
    /\ evt'.kind = "loadFail"

\* a step in which some call runs its for loop, and where that pass begins
LoopPassOf(c) ==
    /\ evt'.kind \in { "loadSuspend", "loadReturn" }
    /\ \/ /\ ops' = ops
          /\ calls[c].pc = "decode"
          /\ (calls'[c].pc # calls[c].pc \/ calls'[c].i # calls[c].i)
       \/ ops' = ops + 1 /\ isProgressiveMode /\ FreeCall(c)

LoopPassFrom(c) ==
    IF ops' = ops THEN calls[c].i + 1 ELSE evt'.call.startSegment

LoopPassUpTo ==
    IF evt'.kind = "loadSuspend" THEN evt'.call.i - 1
    ELSE evt'.call.endSegment + preloadSegments

WriteStep(c) ==
    /\ ops' = ops
    /\ calls[c].pc = "decode"
    /\ (calls'[c].pc # calls[c].pc \/ calls'[c].i # calls[c].i)
    /\ evt'.kind \in { "loadSuspend", "loadReturn" }

\* C10: a segment analysis started under one source never writes into the
\* store after an initialize of another source has begun: whenever an
\* analysis is stored, the file it was computed from is still the current
\* file and the boundaries it carries are those the store holds.
C10_NoStaleWrite ==
    [][ \A c \in CallIds :
          WriteStep(c) =>
             /\ calls[c].file = currentFile
             /\ calls[c].segment.startTime = segments[calls[c].i].startTime
             /\ calls[c].segment.endTime = segments[calls[c].i].endTime
      ]_vars

\* the calls that are suspended between the start of a decode and its write
DecodesInFlight == { c \in CallIds : calls[c].pc = "decode" }

\* C11: at every reachable state, also when several loadSegmentsForTimeRange
\* calls were issued before the first completed, at most one segment
\* decode/analysis is in flight.
C11_AtMostOneDecodeInFlight == Cardinality(DecodesInFlight) <= 1

\* index i lies in the keep-set of cleanup(c):
\* { c + k - floor(maxCachedSegments/2) : 0 <= k < maxCachedSegments }
InKeepWindow(i, c) ==
    \E k \in 0..(maxCachedSegments - 1) : i = c + k - (maxCachedSegments \div 2)

\* the last step ended a pass by running cleanupOldSegments on evt.before
\* with centre evt.call.startSegment
CleanupRan == evt.kind = "loadReturn" /\ evt.call.progressive

\* C12: after cleanup(c) a segment is processed if and only if it was
\* processed before and its index is in the keep-set; a processed segment in
\* the keep-set keeps its data; every processed segment outside it has times
\* and pitches emptied and isProcessed reset to false.
C12_CleanupKeepsExactlyKeepSet ==
    CleanupRan =>
        \A i \in DOMAIN evt.before :
            LET old  == evt.before[i]
                kept == InKeepWindow(i, evt.call.startSegment)
            IN  /\ i \in DOMAIN segments
                /\ segments[i].isProcessed <=> (old.isProcessed /\ kept)
                /\ (old.isProcessed /\ kept) =>
                      /\ segments[i].times = old.times
                      /\ segments[i].pitches = old.pitches
                /\ (old.isProcessed /\ ~kept) =>
                      /\ segments[i].times = << >>
                      /\ segments[i].pitches = << >>
                      /\ ~segments[i].isProcessed

\* C12 witness: cleanup(1) on the 5-segment store of a 45 s source in which
\* segments 1..4 were processed retains 1, 2, 3 and evicts 4
C12_ScenarioD ==
    /\ CleanupRan
    /\ evt.call.startSegment = 1
    /\ DOMAIN segments = 0..4
    /\ \A i \in 1..4 : evt.before[i].isProcessed
    /\ \A i \in 1..3 : segments[i].isProcessed /\ segments[i].times # << >>
    /\ ~segments[4].isProcessed

\* C13: cleanup never changes a segment's startTime or endTime and never
\* adds or removes a segment index; it changes only isProcessed, times and
\* pitches, and only of segments outside the keep-set.
C13_CleanupKeepsBoundaries ==
    CleanupRan =>
        /\ DOMAIN segments = DOMAIN evt.before
        /\ \A i \in DOMAIN evt.before :
              /\ i \in DOMAIN segments
              /\ segments[i].startTime = evt.before[i].startTime
              /\ segments[i].endTime = evt.before[i].endTime
              /\ InKeepWindow(i, evt.call.startSegment)
                    => segments[i] = evt.before[i]

\* C13 witness: a cleanup emptied a segment that held samples, and the
\* segment still has its boundaries
C13_EvictedKeepsBoundaries ==
    /\ CleanupRan
    /\ \E i \in DOMAIN segments :
          /\ evt.before[i].isProcessed
          /\ evt.before[i].times # << >>
          /\ ~segments[i].isProcessed
          /\ segments[i].startTime = i * segmentDuration
          /\ segments[i].endTime > segments[i].startTime

\* the centre indices cleanup is called with: the start segment indices of
\* the load ranges
CleanupCentres == { r[1] \div segmentDuration : r \in LoadRanges }

\* the last step wrote the store (initialize, a stored analysis, a cleanup):
\* every store a run reaches is the store of such a state
StoreWritten == evt.kind \in { "initDone", "loadSuspend", "loadReturn" }

\* C14: cleanup is idempotent: for every reachable store and every centre c,
\* cleanup(c) applied twice gives the store cleanup(c) applied once gives,
\* and a segment that is already unprocessed is left untouched; a store a
\* pass has just cleaned is not changed by the same cleanup again.
C14_CleanupIdempotent ==
    /\ StoreWritten =>
          \A c \in CleanupCentres :
              LET once == cleanupOldSegments(segments, c)
              IN  /\ cleanupOldSegments(once, c) = once
                  /\ \A i \in DOMAIN segments :
                        ~segments[i].isProcessed => once[i] = segments[i]
    /\ CleanupRan =>
          cleanupOldSegments(segments, evt.call.startSegment) = segments

\* C14 witness: a pass has just evicted at least two segments, and the
\* store it left still holds a processed segment another centre would evict
C14_TwoEvicted ==
    /\ CleanupRan
    /\ Cardinality({ i \in DOMAIN segments :
                       evt.before[i].isProcessed /\ ~segments[i].isProcessed }) >= 2
    /\ \E c \in CleanupCentres :
          cleanupOldSegments(segments, c) # segments

\* a step in which a loadSegmentsForTimeRange call is issued
LoadIssued ==
    /\ ops' = ops + 1
    /\ evt'.kind \in { "loadSuspend", "loadReturn", "loadFail" }

\* C15: in whole-file mode, a successful initialize leaves segment 0
\* processed, and every loadSegmentsForTimeRange(start, end) call returns at
\* once and leaves the whole store unchanged: it starts no analysis and runs
\* no eviction.
C15_WholeFileLoadIsNoOp ==
    [][ /\ (evt'.kind = "initDone" /\ ~isProgressiveMode') =>
              /\ 0 \in DOMAIN segments'
              /\ segments'[0].isProcessed
              /\ segments'[0].startTime = 0
              /\ segments'[0].endTime = totalDuration'
        /\ (LoadIssued /\ ~isProgressiveMode) =>
              /\ segments' = segments
              /\ segOrder' = segOrder
              /\ evt'.kind = "loadReturn"
              /\ evt'.before = << >>
              /\ \A c \in CallIds : calls'[c].pc = "decode" => calls[c].pc = "decode"
      ]_vars

\* C15 witness: a load has just returned in whole-file mode, after a
\* successful initialize of a source of at most thresholdDuration
C15_WholeFileLoadReturned ==
    /\ evt.kind = "loadReturn"
    /\ ~evt.call.progressive
    /\ ~isProgressiveMode
    /\ loaded # NoFile
    /\ loaded.dur <= thresholdDuration
    /\ InitsInFlight = {}
    /\ 0 \in DOMAIN segments
    /\ segments[0].isProcessed
    /\ segments[0].times # << >>

NonDecreasing(times) ==
    \A k \in 1..(Len(times) - 1) : times[k] <= times[k + 1]

\* C16: for every reachable store (any sequence of initialize, load and
\* eviction, re-initialization with another source included) and every a, b,
\* the times array getPitchDataForTimeRange(a, b) returns is non-decreasing.
C16_QueryTimesNonDecreasing ==
    \A a \in QueryTimes, b \in QueryTimes :
        NonDecreasing(getPitchDataForTimeRange(a, b).times)

\* segment seg is processed and overlaps [startTime, endTime]
Contributes(seg, startTime, endTime) ==
    /\ seg.isProcessed
    /\ seg.endTime >= startTime
    /\ seg.startTime <= endTime

\* C17: getPitchDataForTimeRange is a pure read: it leaves every segment,
\* the mode and the duration unchanged and starts no analysis, and every
\* sample it returns is a sample of a processed segment that overlaps
\* [start, end]; segments that are unprocessed or do not overlap contribute
\* nothing.
C17_QueryIsPureRead ==
    [][ evt'.kind = "query" =>
          /\ segments' = segments
          /\ segOrder' = segOrder
          /\ isProgressiveMode' = isProgressiveMode
          /\ totalDuration' = totalDuration
          /\ currentFile' = currentFile
          /\ calls' = calls
          /\ inits' = inits
          /\ Len(evt'.data.times) = Len(evt'.data.pitches)
          /\ \A k \in 1..Len(evt'.data.times) :
                \E i \in DOMAIN segments :
                    /\ Contributes(segments[i], evt'.call.startTime,
                                   evt'.call.endTime)
                    /\ \E n \in 1..Len(segments[i].times) :
                          /\ segments[i].times[n] = evt'.data.times[k]
                          /\ segments[i].pitches[n] = evt'.data.pitches[k]
      ]_vars

\* C17 witness: a query has just returned samples from a store that also
\* holds an unprocessed segment and a processed segment outside the window
C17_QueryReturnedData ==
    /\ evt.kind = "query"
    /\ evt.data.times # << >>
    /\ \E i \in DOMAIN segments : ~segments[i].isProcessed
    /\ \E i \in DOMAIN segments :
          /\ segments[i].isProcessed
          /\ segments[i].times # << >>
          /\ ~Contributes(segments[i], evt.call.startTime, evt.call.endTime)

\* the store the loop of a pass has produced when the pass suspends or
\* returns: the store of the next state, or the one handed to the evictor
StoreAfterPass == IF evt'.kind = "loadReturn" THEN evt'.before ELSE segments'

\* the indices of [from, floor(end/segmentDuration) + preloadSegments] that
\* exist and are unprocessed in store m, for the call with arguments rec
Eligible(m, rec, from) ==
    { j \in DOMAIN m :
        /\ j >= from
        /\ j >= rec.startTime \div segmentDuration
        /\ j <= (rec.endTime \div segmentDuration) + preloadSegments
        /\ ~m[j].isProcessed }

C19_EvictionAfterEveryPass ==
    ( /\ evt.kind \in { "loadReturn", "loadFail" }
      /\ evt.call.progressive
      /\ ~evt.call.overlap
      /\ 0 <= evt.call.startTime
      /\ evt.call.endTime < totalDuration )
    => \A i \in DOMAIN segments :
          segments[i].isProcessed => InKeepWindow(i, evt.call.startSegment)

\* a step in which the loop of call c goes from one analysis to the next
NextDecodeBegins(c) ==
    /\ WriteStep(c)
    /\ evt'.kind = "loadSuspend"

\* C20: within one call the segments are analysed strictly sequentially in
\* ascending index order: when the decode of a segment k begins, the store
\* write of the segment j the call analysed before it has happened, and
\* j < k.
C20_SequentialAscending ==
    [][ \A c \in CallIds :
          NextDecodeBegins(c) =>
             /\ calls'[c].pc = "decode"
             /\ calls'[c].i > calls[c].i
             /\ segments'[calls[c].i].isProcessed
             /\ segments'[calls[c].i].times
                  = AnalyseSegment(calls[c].file, calls[c].segment).times
             /\ \A d \in CallIds : d # c => calls'[d] = calls[d]
      ]_vars

\* C20 witness: a call that ran alone is suspended in its third analysis,
\* the two segments before it stored
C20_ThirdDecode ==
    \E c \in CallIds :
        /\ calls[c].pc = "decode"
        /\ ~calls[c].overlap
        /\ evt.kind = "loadSuspend"
        /\ calls[c].i >= calls[c].startSegment + 2
        /\ \A j \in (calls[c].i - 2)..(calls[c].i - 1) :
              j \in DOMAIN segments /\ segments[j].isProcessed

\* C21: there is no cancellation: once a loadSegmentsForTimeRange call has
\* started, and decodes succeed and pending steps are scheduled fairly, the
\* call eventually has analysed every eligible segment of its batch and has
\* run its eviction, also when a newer call was issued while it was
\* suspended: the call returns, no existing unprocessed segment of its range
\* is left from its last analysis on, and the store is the one its
\* eviction, centred on its start segment, made of the store its loop left.
C21_NoCancellation ==
    /\ [][ \A c \in CallIds :
              calls[c].pc = "decode" =>
                 \* an operation issued meanwhile leaves the call suspended
                 /\ ops' = ops + 1 =>
                       [ calls'[c] EXCEPT !.older = calls[c].older,
                                          !.left = calls[c].left ]
                          = [ calls[c] EXCEPT !.overlap = TRUE ]
                 \* the call ends only by returning, its eviction run
                 /\ calls'[c].pc = "idle" =>
                       /\ evt'.kind = "loadReturn"
                       /\ evt'.call = calls[c]
                       /\ evt'.before[calls[c].i].isProcessed
                       /\ Eligible(evt'.before, calls[c], calls[c].i) = {}
                       /\ segments' = cleanupOldSegments(evt'.before,
                                                         calls[c].startSegment)
          ]_vars
    /\ (DecodesInFlight # {}) ~> (DecodesInFlight = {})

\* C21 witness: a call during whose suspension a newer call was issued has
\* returned with its eviction run, the newer call still in flight
C21_SupersededCallReturned ==
    /\ CleanupRan
    /\ evt.call.overlap
    /\ evt.before[evt.call.i].isProcessed
    /\ evt.call.i > evt.call.startSegment
    /\ \E d \in CallIds :
          /\ calls[d].pc = "decode"
          /\ << calls[d].startTime, calls[d].endTime >>
                # << evt.call.startTime, evt.call.endTime >>

\* the segment processSegment stores for the segment and file a call captured
Analysed(rec) ==
    [ rec.segment EXCEPT !.times = AnalyseSegment(rec.file, rec.segment).times,
                         !.pitches = AnalyseSegment(rec.file, rec.segment).pitches,
                         !.isProcessed = TRUE ]

\* calls c and d are suspended in the analysis of the same segment of the
\* same source
SameAnalysis(c, d) ==
    /\ c # d
    /\ calls[c].pc = "decode"
    /\ calls[d].pc = "decode"
    /\ calls[c].i = calls[d].i
    /\ calls[c].file = calls[d].file
    /\ calls[c].segment = calls[d].segment

\* C22: segment writes are index-based and idempotent: what a call stores
\* at index k is the analysis of the segment and file it captured, whatever
\* the store holds at k by then; when two overlapping calls analyse the same
\* segment of the same source, the first write leaves the other call's
\* pending write as it was, both store the same content (boundaries, times,
\* pitches, isProcessed = true), and the second write leaves the content of
\* the first unchanged, in either completion order.
C22_IdempotentSegmentWrite ==
    [][ \A c \in CallIds :
          WriteStep(c) =>
             /\ StoreAfterPass[calls[c].i] = Analysed(calls[c])
             /\ evt'.write.stored = Analysed(calls[c])
             /\ evt'.write.prior = segments[calls[c].i]
             /\ evt'.write.prior = Analysed(calls[c])
                   => StoreAfterPass = segments
             /\ \A d \in CallIds :
                   SameAnalysis(c, d) =>
                      /\ calls'[d].pc = "decode"
                      /\ calls'[d].i = calls[d].i
                      /\ calls'[d].segment = calls[d].segment
                      /\ calls'[d].file = calls[d].file
                      /\ StoreAfterPass[calls[d].i] = Analysed(calls[d])
      ]_vars

\* C22 witness: the second of two overlapping calls has just stored its
\* analysis of a segment the first had already stored, samples included
C22_SecondWriteSameContent ==
    /\ evt.kind \in { "loadSuspend", "loadReturn" }
    /\ evt.call.overlap
    /\ evt.write.prior.isProcessed
    /\ evt.write.prior.times # << >>
    /\ evt.write.stored = evt.write.prior

\* C23: between the start and the return of one loadSegmentsForTimeRange
\* batch the segment map is changed only by that batch's own segment writes
\* and its own final eviction: while a call is suspended at its await, every
\* step that changes the map is a step of that call.
C23_NoReentrantMutation ==
    [][ \A c \in CallIds :
          ( /\ calls[c].pc = "decode"
            /\ segments' # segments \/ segOrder' # segOrder )
          => WriteStep(c)
      ]_vars

StrictlyIncreasing(times) ==
    \A k \in 1..(Len(times) - 1) : times[k] < times[k + 1]

\* C24: in every reachable state, every processed segment has times
\* strictly increasing and as many pitches as times.
C24_ProcessedSegmentWellFormed ==
    \A i \in DOMAIN segments :
        segments[i].isProcessed =>
            /\ StrictlyIncreasing(segments[i].times)
            /\ Len(segments[i].times) = Len(segments[i].pitches)

\* C24 witness: a processed segment holds several samples, a null pitch
\* among them
C24_SegmentWithNullPitch ==
    \E i \in DOMAIN segments :
        /\ segments[i].isProcessed
        /\ Len(segments[i].times) >= 3
        /\ \E k \in 1..Len(segments[i].pitches) : segments[i].pitches[k] = Null
        /\ \E k \in 1..Len(segments[i].pitches) : segments[i].pitches[k] # Null

\* C25: in every reachable state, every segment with isProcessed = false
\* has empty times and empty pitches: data is present only while the
\* segment is marked processed, and eviction empties both arrays together
\* with resetting the flag.
C25_UnprocessedSegmentEmpty ==
    \A i \in DOMAIN segments :
        ~segments[i].isProcessed =>
            /\ segments[i].times = << >>
            /\ segments[i].pitches = << >>

\* C25 witness: an eviction has just emptied a segment that held samples,
\* next to a segment that was never analysed
C25_EvictedAndFreshEmpty ==
    /\ CleanupRan
    /\ \E i \in DOMAIN segments :
          /\ evt.before[i].isProcessed
          /\ evt.before[i].times # << >>
          /\ evt.before[i].pitches # << >>
          /\ ~segments[i].isProcessed
    /\ \E j \in DOMAIN segments :
          /\ ~evt.before[j].isProcessed
          /\ ~segments[j].isProcessed

\* the estimate lies in the band [60, 500] Hz with confidence at least 0.8
ValidEstimate(est) == est[1] >= 60 /\ est[1] <= 500 /\ est[2] >= 80

\* the estimator's answer for sample k of the analysis the last step stored
StoredEstimate(k) == findPitch(evt.write.file, evt.write.stored.times[k])

\* the samples of the smoothing window of sample k whose estimate is valid
ValidInWindow(k) ==
    { j \in Max(1, k - (MEDIAN_FILTER_SIZE \div 2))
             ..Min(Len(evt.write.stored.times), k + (MEDIAN_FILTER_SIZE \div 2)) :
        ValidEstimate(StoredEstimate(j)) }

\* C26 as stated: for every pitch sample stored in a processed segment,
\* the stored value is None whenever the estimator's frequency for that
\* frame lies outside [60, 500] Hz or its confidence is below 0.8.
C26_StoredNoneWhenInvalid ==
    evt.write.stored.isProcessed =>
        \A k \in 1..Len(evt.write.stored.times) :
            ~ValidEstimate(StoredEstimate(k)) => evt.write.stored.pitches[k] = Null

\* C26, amended: for every pitch sample stored in a processed segment, the
\* stored value is None exactly when no frame of its smoothing window (two
\* frames to either side, clamped to the analysed range) has a frequency in
\* [60, 500] Hz with confidence at least 0.8; otherwise it is the frequency
\* of such a frame of the window, so a stored None implies that the frame
\* itself was rejected, but a rejected frame may hold a neighbour's value.
C26_StoredIsValidValueOfWindow ==
    evt.write.stored.isProcessed =>
        /\ Len(evt.write.stored.pitches) = Len(evt.write.stored.times)
        /\ \A k \in 1..Len(evt.write.stored.times) :
              LET stored == evt.write.stored.pitches[k]
                  window == ValidInWindow(k)
              IN  /\ stored = Null <=> window = {}
                  /\ stored = Null => ~ValidEstimate(StoredEstimate(k))
                  /\ stored # Null =>
                        \E j \in window : stored = StoredEstimate(j)[1]

\* C26 witness: an analysis has just been stored in which one rejected
\* frame holds None and another rejected frame holds a frequency
C26_RejectedFrameHoldsValue ==
    /\ evt.write.stored.isProcessed
    /\ ~evt.write.prior.isProcessed
    /\ \E k \in 1..Len(evt.write.stored.times) :
          /\ ~ValidEstimate(StoredEstimate(k))
          /\ evt.write.stored.pitches[k] = Null
    /\ \E k \in 1..Len(evt.write.stored.times) :
          /\ ~ValidEstimate(StoredEstimate(k))
          /\ evt.write.stored.pitches[k] # Null

\* C27: the extractor applies a hard threshold per frame before smoothing:
\* the raw value is the estimated frequency when 60 <= frequency <= 500 and
\* confidence >= 0.8 (bounds inclusive), and None otherwise; a frequency
\* just outside the band is discarded, never clamped to 60 or 500.
C27_HardThreshold ==
    evt.kind = "threshold" =>
        /\ ( 60 <= evt.pitch /\ evt.pitch <= 500 /\ evt.clarity >= 80 )
              => evt.raw = evt.pitch
        /\ ~( 60 <= evt.pitch /\ evt.pitch <= 500 /\ evt.clarity >= 80 )
              => evt.raw = Null
        /\ evt.raw \in { 60, 500 } => evt.pitch = evt.raw

\* C27 witness: a frequency just above the band, with full confidence, has
\* been discarded
C27_JustOutsideDiscarded ==
    /\ evt.kind = "threshold"
    /\ evt.pitch = 501
    /\ evt.clarity = 100
    /\ evt.raw = Null

\* the positions (1-based) of the valid values of arr in the window of
\* position k: [k - floor(w/2), k + floor(w/2)] clamped to the array
ValidPositions(arr, windowSize, k) ==
    { j \in Max(1, k - (windowSize \div 2))..Min(Len(arr), k + (windowSize \div 2)) :
        arr[j] # Null }

\* v is the element at position floor(count/2) (0-based) of the values at
\* the positions W of arr, sorted ascending
IsUpperMedian(v, arr, W) ==
    /\ \E j \in W : arr[j] = v
    /\ Cardinality({ j \in W : arr[j] < v }) <= Cardinality(W) \div 2
    /\ Cardinality({ j \in W : arr[j] <= v }) > Cardinality(W) \div 2

\* C28: medianFilter(arr, w) returns a sequence of the length of arr in
\* which element i is, for the non-null values of arr in the window
\* [i - floor(w/2), i + floor(w/2)] clamped to the array and sorted
\* ascending, the element at position floor(count/2) (the upper-middle one
\* for an even count), and None when the window holds no valid value;
\* [None, 100, 102, None, 98] with w = 5 gives [102, 102, 100, 100, 102].
C28_MedianFilterContract ==
    evt.kind = "medianFilter" =>
        /\ Len(evt.result) = Len(evt.arr)
        /\ \A k \in 1..Len(evt.arr) :
              LET W == ValidPositions(evt.arr, evt.windowSize, k)
              IN  IF W = {} THEN evt.result[k] = Null
                  ELSE IsUpperMedian(evt.result[k], evt.arr, W)
        /\ ( evt.arr = << Null, 100, 102, Null, 98 >> /\ evt.windowSize = 5 )
              => evt.result = << 102, 102, 100, 100, 102 >>

\* C28 witness: Scenario E
C28_ScenarioE ==
    /\ evt.kind = "medianFilter"
    /\ evt.arr = << Null, 100, 102, Null, 98 >>
    /\ evt.windowSize = 5
    /\ evt.result = << 102, 102, 100, 100, 102 >>

\* C29: medianFilter with window size 1 applied to a sequence in which
\* every element is valid returns the input sequence unchanged.
C29_WindowOneIsIdentity ==
    ( /\ evt.kind = "medianFilter"
      /\ evt.windowSize = 1
      /\ \A k \in 1..Len(evt.arr) : evt.arr[k] # Null )
    => evt.result = evt.arr

\* C29 witness: window 1 has been applied to an all-valid sequence that is
\* neither constant nor sorted
C29_WindowOneOnCleanData ==
    /\ evt.kind = "medianFilter"
    /\ evt.windowSize = 1
    /\ evt.arr = << 100, 102, 98 >>
    /\ evt.result = << 100, 102, 98 >>

\* times lists, in ascending order, exactly the start indices
\* first, first + hopSize, first + 2*hopSize, ... with i + frameSize < limit
IsFrameSampling(times, first, limit) ==
    /\ StrictlyIncreasing(times)
    /\ { times[k] : k \in 1..Len(times) }
         = { i \in first..limit : /\ (i - first) % 256 = 0
                                  /\ i + 2048 < limit }

\* C30: frame sampling emits one frame for exactly the start indices
\* i = first, first + hopSize, first + 2*hopSize, ... with
\* i + frameSize < limit (strict), where (first, limit) is (0, bufferLength)
\* in whole-file mode and (floor(startTime*sampleRate),
\* floor(endTime*sampleRate)) for a segment; a range of at most frameSize
\* samples yields no frame, and the final partial frame is dropped.
C30_FrameSampling ==
    /\ evt.kind = "frames" =>
          /\ IsFrameSampling(evt.result.times, evt.first, evt.limit)
          /\ Len(evt.result.pitches) = Len(evt.result.times)
          /\ evt.limit - evt.first <= 2048 => evt.result.times = << >>
          /\ \A k \in 1..Len(evt.result.times) :
                evt.result.times[k] + 2048 < evt.limit
    /\ evt.kind = "processEntireFile" =>
          IsFrameSampling(evt.result.times, 0, evt.file.dur * SampleRate)
    /\ evt.kind = "processSegment" =>
          IsFrameSampling(evt.result.times,
                          evt.segment.startTime * SampleRate,
                          evt.segment.endTime * SampleRate)

\* C30 witness: a range of frameSize + hopSize samples has given one frame:
\* the second one would end exactly at the limit and is dropped
C30_FrameAtLimitDropped ==
    /\ evt.kind = "frames"
    /\ evt.limit - evt.first = 2048 + 256
    /\ evt.result.times = << evt.first >>

\* C31: at each moment a loadSegmentsForTimeRange call returns after its
\* loop, every processed segment of the store lies inside that call's
\* keep-window (the maxCachedSegments indices centred on its start
\* segment), also when another call is still in flight or has written a
\* segment since another call's eviction ran.
C31_ProcessedInsideWindowOnReturn ==
    CleanupRan =>
        \A i \in DOMAIN segments :
            segments[i].isProcessed => InKeepWindow(i, evt.call.startSegment)

\* C31 witness: a call has returned while another call is suspended in an
\* analysis; its eviction emptied a segment and left another one processed
C31_ReturnedBesideCallInFlight ==
    /\ CleanupRan
    /\ evt.call.overlap
    /\ DecodesInFlight # {}
    /\ \E i \in DOMAIN segments :
          evt.before[i].isProcessed /\ ~segments[i].isProcessed
    /\ \E i \in DOMAIN segments :
          segments[i].isProcessed /\ segments[i].times # << >>

\* ---------------------------------------------------------------------------
\* C32  Later results win: when two loadSegmentsForTimeRange calls on the
\* same source overlapped and both have completed, every segment the call
\* issued later left processed (inside its own keep window) is still
\* processed, whichever of the two completed last.  The state is the one the
\* call issued earlier returns into, after the later call returned beside it.
C32_LaterResultsWin ==
    ( /\ CleanupRan
      /\ evt.call.left # {}
      /\ evt.call.file = currentFile
      /\ loaded = currentFile
      /\ InitsInFlight = {} )
        => \A i \in evt.call.left : segments[i].isProcessed

\* ---------------------------------------------------------------------------
\* C33  In progressive mode, when no loadSegmentsForTimeRange call is in
\* flight and the call that completed last returned without error, at most
\* maxCachedSegments segments are processed and they all lie in one window of
\* maxCachedSegments consecutive indices.  The state is the one that call
\* returns into; the queries that may follow leave the store as it is (C17).
C33_QuiescentWithinOneWindow ==
    ( CleanupRan /\ isProgressiveMode /\ CallsInFlight = {} ) =>
        /\ Cardinality(ProcessedIndices) <= maxCachedSegments
        /\ \E w \in { i - maxCachedSegments : i \in DOMAIN segments } \cup DOMAIN segments :
              ProcessedIndices \subseteq w..(w + maxCachedSegments - 1)

\* the last call has returned, nothing is in flight, the store holds
\* maxCachedSegments processed segments and one the call evicted
C33_FullWindowAtRest ==
    /\ CleanupRan
    /\ isProgressiveMode
    /\ CallsInFlight = {}
    /\ InitsInFlight = {}
    /\ loaded = currentFile
    /\ Cardinality(ProcessedIndices) = maxCachedSegments
    /\ \E i \in DOMAIN segments : evt.before[i].isProcessed /\ ~segments[i].isProcessed

\* ---------------------------------------------------------------------------
\* C34  After a loadSegmentsForTimeRange(start, end) that ran alone in
\* progressive mode and returned without error, with 0 <= start <
\* totalDuration (and start <= end, a time range), the segment containing
\* start is processed: the eviction that ends the call keeps its own centre.
C34_CentreProcessedAfterLoad ==
    ( /\ CleanupRan
      /\ ~evt.call.overlap
      /\ 0 <= evt.call.startTime
      /\ evt.call.startTime < totalDuration
      /\ evt.call.startTime <= evt.call.endTime )
        => /\ evt.call.startSegment \in DOMAIN segments
           /\ segments[evt.call.startSegment].isProcessed

\* such a call has returned: it analysed its centre, evicted a segment it had
\* analysed itself and left the centre processed
C34_CentreKeptOthersEvicted ==
    /\ CleanupRan
    /\ ~evt.call.overlap
    /\ 0 <= evt.call.startTime
    /\ evt.call.startTime < totalDuration
    /\ evt.write.stored.isProcessed
    /\ segments[evt.call.startSegment].isProcessed
    /\ segments[evt.call.startSegment].times # << >>
    /\ \E i \in DOMAIN segments : evt.before[i].isProcessed /\ ~segments[i].isProcessed

\* ---------------------------------------------------------------------------
\* C35  If initialize fails (the duration probe rejects or the whole-file
\* decode fails), the manager's state is the one it had before the call:
\* current source, totalDuration, progressive-mode flag and segment map are
\* unchanged.  The state is the one the failed call throws into, for a call
\* that ran alone.
C35_FailedInitializeLeavesState ==
    ( /\ evt.kind = "initFail"
      /\ evt.entry.alone )
        => /\ currentFile = evt.entry.currentFile
           /\ totalDuration = evt.entry.totalDuration
           /\ isProgressiveMode = evt.entry.isProgressiveMode
           /\ segments = evt.entry.segments

\* ---------------------------------------------------------------------------
\* C36  Evict-then-reload round trip: a segment that was processed, evicted
\* by cleanup and analysed again on the same source holds exactly the
\* boundaries, times and pitches its first analysis stored.
C36_ReloadStoresFirstAnalysis ==
    evt.kind = "evictReload" =>
        /\ evt.again.startTime = evt.first.startTime
        /\ evt.again.endTime = evt.first.endTime
        /\ evt.again.times = evt.first.times
        /\ evt.again.pitches = evt.first.pitches
        /\ evt.again.isProcessed

\* a segment with data was evicted (boundaries kept, data gone) and analysed
\* again
C36_ReloadedAfterEviction ==
    /\ evt.kind = "evictReload"
    /\ evt.first.isProcessed
    /\ evt.first.times # << >>
    /\ \E k \in 1..Len(evt.first.pitches) : evt.first.pitches[k] # Null
    /\ ~evt.evicted.isProcessed
    /\ evt.evicted.times = << >>
    /\ evt.again.isProcessed
    /\ evt.again.times # << >>

\* ---------------------------------------------------------------------------
\* C37  In progressive mode on a single source every time stored in processed
\* segment i lies in [startTime_i, endTime_i), so the times of different
\* segments never interleave: in index order the last time of a segment is
\* below the first time of the next one that holds data.  Times are sample
\* positions (seconds times SampleRate); a single source is a state whose
\* file, duration and mode are those of the last successful initialize.
C37_TimesInsideOwnSegment ==
    ( /\ isProgressiveMode
      /\ loaded = currentFile
      /\ totalDuration = currentFile.dur
      /\ currentFile.dur > thresholdDuration ) =>
        /\ \A i \in DOMAIN segments :
              segments[i].isProcessed =>
                 \A k \in 1..Len(segments[i].times) :
                    /\ segments[i].startTime * SampleRate <= segments[i].times[k]
                    /\ segments[i].times[k] < segments[i].endTime * SampleRate
        /\ \A i, j \in DOMAIN segments :
              ( /\ i < j
                /\ segments[i].isProcessed /\ segments[i].times # << >>
                /\ segments[j].isProcessed /\ segments[j].times # << >> )
                 => segments[i].times[Len(segments[i].times)] < segments[j].times[1]

\* two neighbouring segments hold data, the later one from its very first
\* sample on
C37_NeighboursWithData ==
    /\ isProgressiveMode
    /\ loaded = currentFile
    /\ totalDuration = currentFile.dur
    /\ currentFile.dur > thresholdDuration
    /\ \E i \in DOMAIN segments :
          /\ (i + 1) \in DOMAIN segments
          /\ segments[i].isProcessed /\ Len(segments[i].times) > 1
          /\ segments[i + 1].isProcessed /\ segments[i + 1].times # << >>
          /\ segments[i + 1].times[1] = segments[i + 1].startTime * SampleRate

\* ---------------------------------------------------------------------------
\* C38  Every non-null pitch an analysis stores lies in [60, 500] and is the
\* thresholded raw value of a frame of the same segment at most 2 frames
\* away: smoothing selects a value of the window and creates none.
C38_StoredPitchIsRawValueNearby ==
    evt.kind \in { "processSegment", "processEntireFile" } =>
        \A k \in 1..Len(evt.result.pitches) :
            evt.result.pitches[k] # Null =>
                /\ evt.result.pitches[k] >= 60
                /\ evt.result.pitches[k] <= 500
                /\ \E j \in 1..Len(evt.result.times) :
                      /\ j >= k - 2
                      /\ j <= k + 2
                      /\ Threshold(findPitch(evt.file, evt.result.times[j]))
                            = evt.result.pitches[k]

\* an analysis of a segment in which smoothing replaced the valid raw value
\* of a frame by that of a neighbour
C38_NeighbourValueSelected ==
    /\ evt.kind = "processSegment"
    /\ \E k \in 1..Len(evt.result.pitches) :
          /\ evt.result.pitches[k] # Null
          /\ Threshold(findPitch(evt.file, evt.result.times[k])) # Null
          /\ Threshold(findPitch(evt.file, evt.result.times[k]))
                # evt.result.pitches[k]

\* ---------------------------------------------------------------------------
\* C39  With the 100 ms debounce of handleViewChange at most one
\* loadSegmentsForTimeRange call it issued is in flight: a load is never
\* started in progressive mode while an earlier one is suspended in its
\* analysis.
C39_LoadStartsOnlyWhenNoneInFlight ==
    [][ ( LoadIssued /\ isProgressiveMode ) => CallsInFlight = {} ]_vars

====
